---- MODULE Spec2Model ----
(***************************************************************************)
(* Model of the conversation orchestrator of the assistant package          *)
(* (Orchestrator: history, tone directive, buffered and streamed turns)     *)
(* and of the delegation tools it hands to the model call; of the web-chat  *)
(* handler that streams an orchestrator's answer as server-sent events; and *)
(* of the useChatStream hook that reads that stream.                        *)
(*                                                                          *)
(* Text is modelled as a sequence of pieces; template literals and += are   *)
(* concatenation (\o).  The tone value is a sequence of characters so that  *)
(* trim() and toLowerCase() are computed, not assumed.  An optional value   *)
(* is a sequence of length 0 (undefined) or 1.                              *)
(***************************************************************************)
EXTENDS Integers, Sequences, FiniteSets, TLC

VARIABLES
    config,               \* Orchestrator.config (the fields the model reads)
    conversationHistory,  \* Orchestrator.conversationHistory
    calls,                \* the calls in flight and the calls settled since the last call was issued
    issued,               \* number of processMessage / processMessageStream calls issued
    integrations,         \* the integration store read by IntegrationsClient.getIntegration
    response,             \* one invocation of the web-chat handler and its response stream
    stream,               \* the state of the useChatStream hook
    held,                 \* the arrays the orchestrator's caller holds
    hook                  \* the startStream activations of one useChatStream hook and its controller ref

vars ==
    <<config, conversationHistory, calls, issued, integrations, response, stream, held,
      hook>>

\* what the orchestrator's methods do not touch
others == <<response, stream, held, hook>>

----------------------------------------------------------------------------
(* Bounds *)

\* calls issued on one orchestrator under Spec
MaxCalls == 2
\* calls issued on one orchestrator under SpecTone
MaxToneCalls == 1
\* calls issued on one orchestrator under SpecDelegation
MaxDelegationCalls == 1
\* chunks of one model stream
MaxChunks == 2
\* tool executions of one model call
MaxDelegations == 2
\* calls issued on one orchestrator under SpecSnapshot
MaxSnapshotCalls == 2
\* calls issued on one orchestrator under SpecRestore
MaxRestoreCalls == 1
\* calls issued on one orchestrator under SpecConcurrent
MaxConcurrentCalls == 2
\* startStream calls on one hook under SpecHook
MaxStreams == 2
\* entries of the message list of one chat request under SpecRequest
MaxRequestMessages == 3
\* arrays the caller obtains from getHistory
MaxHeld == 1
\* turns the caller lets an array it holds grow to
MaxHeldTurns == 3

----------------------------------------------------------------------------
(* Optional values and text *)

None == <<>>
Some(v) == <<v>>
IsSome(o) == Len(o) = 1
Get(o) == o[1]

\* JavaScript truthiness of an optional string: undefined and "" are falsy
Truthy(o) == IsSome(o) /\ Len(Get(o)) > 0

RECURSIVE Concat(_)
Concat(chunks) ==
    IF chunks = <<>> THEN <<>> ELSE Head(chunks) \o Concat(Tail(chunks))

Last(s) == s[Len(s)]
Front(s) == SubSeq(s, 1, Len(s) - 1)

----------------------------------------------------------------------------
(* Tone directive *)

ConciseAndDirect ==
    <<"c", "o", "n", "c", "i", "s", "e", " ", "a", "n", "d", " ",
      "d", "i", "r", "e", "c", "t">>
ProfessionalAndFriendly ==
    <<"p", "r", "o", "f", "e", "s", "s", "i", "o", "n", "a", "l", " ",
      "a", "n", "d", " ", "f", "r", "i", "e", "n", "d", "l", "y">>
DetailedAndConversational ==
    <<"d", "e", "t", "a", "i", "l", "e", "d", " ", "a", "n", "d", " ",
      "c", "o", "n", "v", "e", "r", "s", "a", "t", "i", "o", "n", "a", "l">>
\* a value that differs from an enumerated one in letter case and padding only
PaddedCapitalConcise ==
    <<" ", "C", "o", "n", "c", "i", "s", "e", " ", "A", "n", "d", " ",
      "D", "i", "r", "e", "c", "t", " ">>
Casual == <<"c", "a", "s", "u", "a", "l">>

ConciseSuffix == "\n\nResponse Tone: Skip the fluff, speedrun the answer.\""
ProfessionalSuffix == "\n\nResponse Tone: Helpful genius, but fun at parties.\""
DetailedSuffix == "\n\nNerd out and spill the tea."
UserMessageLabel == "\n\nUser message: "

LowerOf(ch) ==
    CASE ch = "A" -> "a" [] ch = "B" -> "b" [] ch = "C" -> "c" [] ch = "D" -> "d"
      [] ch = "E" -> "e" [] ch = "F" -> "f" [] ch = "G" -> "g" [] ch = "H" -> "h"
      [] ch = "I" -> "i" [] ch = "J" -> "j" [] ch = "K" -> "k" [] ch = "L" -> "l"
      [] ch = "M" -> "m" [] ch = "N" -> "n" [] ch = "O" -> "o" [] ch = "P" -> "p"
      [] ch = "Q" -> "q" [] ch = "R" -> "r" [] ch = "S" -> "s" [] ch = "T" -> "t"
      [] ch = "U" -> "u" [] ch = "V" -> "v" [] ch = "W" -> "w" [] ch = "X" -> "x"
      [] ch = "Y" -> "y" [] ch = "Z" -> "z" [] OTHER -> ch

ToLowerCase(s) == [i \in 1..Len(s) |-> LowerOf(s[i])]

IsSpace(ch) == ch \in {" ", "\t", "\n", "\r"}

RECURSIVE TrimStart(_)
TrimStart(s) ==
    IF s # <<>> /\ IsSpace(Head(s)) THEN TrimStart(Tail(s)) ELSE s

RECURSIVE TrimEnd(_)
TrimEnd(s) ==
    IF s # <<>> /\ IsSpace(Last(s)) THEN TrimEnd(Front(s)) ELSE s

Trim(s) == TrimEnd(TrimStart(s))

\* the optional suffix the tone selects: None when the value is not recognized
ToneSuffixAlwaysConcise(tone) ==
    LET t == ToLowerCase(Trim(tone)) IN
    IF t = ConciseAndDirect THEN Some(ConciseSuffix)
    ELSE IF t = ProfessionalAndFriendly THEN Some(ConciseSuffix)
    ELSE IF t = DetailedAndConversational THEN Some(DetailedSuffix)
    ELSE None

\* a match against the configured value as it was given
ToneSuffixExactMatch(tone) ==
    IF tone = ConciseAndDirect THEN Some(ConciseSuffix)
    ELSE IF tone = ProfessionalAndFriendly THEN Some(ProfessionalSuffix)
    ELSE IF tone = DetailedAndConversational THEN Some(DetailedSuffix)
    ELSE None

ToneSuffix(tone) ==
    LET t == ToLowerCase(Trim(tone)) IN
    IF t = ConciseAndDirect THEN Some(ConciseSuffix)
    ELSE IF t = ProfessionalAndFriendly THEN Some(ProfessionalSuffix)
    ELSE IF t = DetailedAndConversational THEN Some(DetailedSuffix)
    ELSE None

\* userContent before the tone is applied (both methods)
BaseContent(message, additionalContext) ==
    IF Truthy(additionalContext)
    THEN Get(additionalContext) \o <<UserMessageLabel>> \o message
    ELSE message

\* userContent of processMessage
BufferedUserContent(message, additionalContext) ==
    LET base == BaseContent(message, additionalContext) IN
    IF Truthy(config.toneOfResponse) /\ IsSome(ToneSuffix(Get(config.toneOfResponse)))
    THEN base \o <<Get(ToneSuffix(Get(config.toneOfResponse)))>>
    ELSE base

\* console.warn of processMessage
BufferedWarns ==
    Truthy(config.toneOfResponse) /\ ~IsSome(ToneSuffix(Get(config.toneOfResponse)))

\* userContent of processMessageStream
StreamUserContent(message, additionalContext) ==
    BaseContent(message, additionalContext)

----------------------------------------------------------------------------
(* Inputs *)

ORCHESTRATOR_SYSTEM_PROMPT == <<"SYSTEM_PROMPT">>

SystemTurn == [role |-> "system", content |-> ORCHESTRATOR_SYSTEM_PROMPT]
UserTurn(content) == [role |-> "user", content |-> content]
AssistantTurn(content) == [role |-> "assistant", content |-> content]

Messages == {<<"X">>}
Contexts == {None, Some(<<"ctx">>)}
Texts == {<<"answer">>}
Chunks == {<<"a">>, <<"b">>}

\* toneOfResponse values a caller can configure (undefined, "", a string)
ToneInputs ==
    {None, Some(<<>>), Some(ConciseAndDirect), Some(ProfessionalAndFriendly),
     Some(DetailedAndConversational), Some(PaddedCapitalConcise), Some(Casual)}

Connectors == {"gmail", "google_calendar"}

----------------------------------------------------------------------------
(* Server-sent events: the encoder of the web-chat handler *)

\* the index of the first "\n" of s, 0 when it has none
RECURSIVE IndexOfNewline(_, _)
IndexOfNewline(s, from) ==
    IF from > Len(s) THEN 0
    ELSE IF s[from] = "\n" THEN from
    ELSE IndexOfNewline(s, from + 1)

\* String.prototype.split("\n")
RECURSIVE SplitLines(_)
SplitLines(s) ==
    LET i == IndexOfNewline(s, 1) IN
    IF i = 0 THEN <<s>>
    ELSE <<SubSeq(s, 1, i - 1)>> \o SplitLines(SubSeq(s, i + 1, Len(s)))

\* an SSEMessage: event, optional id, data (retry is never set)
SSEMessage(event, id, data) == [event |-> event, id |-> id, data |-> data]

\* one "data: <line>\n" per line
RECURSIVE DataLines(_)
DataLines(lines) ==
    IF lines = <<>> THEN <<>>
    ELSE <<"data: ">> \o Head(lines) \o <<"\n">> \o DataLines(Tail(lines))

formatSSE(message) ==
    (IF message.event # "" THEN <<"event: ", message.event, "\n">> ELSE <<>>)
    \o (IF Truthy(message.id) THEN <<"id: ">> \o Get(message.id) \o <<"\n">> ELSE <<>>)
    \o DataLines(SplitLines(message.data))
    \o <<"\n">>

\* JSON.stringify({ error: message })
ErrorJson(message) == <<"{\"error\":\"", message, "\"}">>

\* JSON.stringify({ type: "connection", status: "connected", userId })
ConnectionJson(userId) ==
    <<"{\"type\":\"connection\",\"status\":\"connected\",\"userId\":\"", userId, "\"}">>

ConnectionEvent(userId) == SSEMessage("connection", None, ConnectionJson(userId))
CompleteEvent == SSEMessage("complete", None, <<"[DONE]">>)
ErrorEvent(message) == SSEMessage("error", None, ErrorJson(message))

\* { data: chunk, id: String(chunkId), event: 'message' }
MessageEvent(chunk, chunkId) ==
    SSEMessage("message", Some(<<ToString(chunkId)>>), chunk)

\* error instanceof Error ? error.message : fallback
ErrorMessageOr(error, fallback) ==
    IF IsSome(error.message) THEN Get(error.message) ELSE fallback

----------------------------------------------------------------------------
(* The web-chat handler: state *)

\* the requests the handler is invoked with: the Authorization header
\* verifies or not, and the body is absent, not JSON, without a messages
\* array, with an empty one, with no user message, or with the user message X
Bodies == {"missing", "malformed", "noMessages", "empty", "noUser", "ok"}
Requests == [authorized : BOOLEAN, body : Bodies]

NoRequest == [authorized |-> FALSE, body |-> "missing"]

\* no invocation yet: nothing written, response stream not ended
NoResponse ==
    [pc |-> "idle", request |-> NoRequest, metadata |-> None, wire |-> <<>>,
     ended |-> FALSE, chunkId |-> 1, failure |-> "none"]

\* the hook before startStream
\* a hook on which startStream was never called: the ref holds null (0)
NoHook == [abortControllerRef |-> 0, controllers |-> 0, runs |-> <<>>]

NoStream ==
    [pc |-> "idle", status |-> "idle", connectionStatus |-> "disconnected",
     streamedMessage |-> <<>>, error |-> None,
     abortController |-> FALSE, accumulatedMessage |-> <<>>, completed |-> FALSE,
     read |-> 0, lastRead |-> <<>>, lastParsed |-> None,
     onMessageChunk |-> <<>>, onComplete |-> <<>>, onError |-> <<>>,
     onConnection |-> 0, ending |-> "none"]

----------------------------------------------------------------------------
(* Constructor *)

\* the defaults, overridden by every key the given config holds
Constructor(given) ==
    [toneOfResponse |->
        IF given.hasTone THEN given.toneOfResponse ELSE Some(ConciseAndDirect),
     composioApiKey |-> given.composioApiKey,
     connectionIds |-> given.connectionIds]

\* this.delegationTools is set only when a Composio API key is configured
HasDelegationTools == Truthy(config.composioApiKey)

\* the config of the package's first example: no tone, no Composio key
DefaultConfigInput ==
    [hasTone |-> FALSE, toneOfResponse |-> None, composioApiKey |-> None,
     connectionIds |-> None]

NoIntegrations == [c \in Connectors |-> None]

InitWith(given, store) ==
    /\ config = Constructor(given)
    /\ conversationHistory = <<SystemTurn>>
    /\ calls = <<>>
    /\ issued = 0
    /\ integrations = store
    /\ response = NoResponse
    /\ stream = NoStream
    /\ held = <<>>
    /\ hook = NoHook

Init == InitWith(DefaultConfigInput, NoIntegrations)

----------------------------------------------------------------------------
(* Calls *)

InFlightPcs == {"generateText", "streaming"}

IsInFlight(call) == call.pc \in InFlightPcs

InFlight(c) == IsInFlight(calls[c])

\* the caller contract: one turn in flight per orchestrator
Idle == \A c \in 1..Len(calls) : ~InFlight(c)

NewCall(method, message, additionalContext, userContent, warned, pc) ==
    [method |-> method, message |-> message, additionalContext |-> additionalContext,
     userContent |-> userContent, warned |-> warned, pc |-> pc,
     histBefore |-> conversationHistory, histAfter |-> <<>>,
     chunkCount |-> 0, fullText |-> <<>>, yielded |-> <<>>,
     modelCall |-> "pending", text |-> <<>>, delegations |-> <<>>,
     messages |-> <<>>]

\* every tool execution of the call has handed its payload back to the model call
ToolsSettled(call) ==
    \A d \in 1..Len(call.delegations) : call.delegations[d].pc = "returned"

\* a call's record is kept while the call or one of its tool executions is
\* running, and after that until the next call is issued
IsRunning(call) == IsInFlight(call) \/ ~ToolsSettled(call)

Issue(call) == Append(SelectSeq(calls, IsRunning), call)

\* a catch block that rethrows without the pop
RollbackKeepsTurn(history) == history

\* what the catch block does to the history
Rollback(history) == Front(history)

\* a model call that is given the new user turn alone
ModelMessagesLastOnly(history) == <<Last(history)>>

\* messages: this.conversationHistory, the argument of generateText / streamText
ModelMessages(history) == history

\* processMessage up to its await of generateText
ProcessMessage(message, additionalContext) ==
    /\ LET userContent == BufferedUserContent(message, additionalContext) IN
        /\ conversationHistory' = Append(conversationHistory, UserTurn(userContent))
        /\ calls' = Issue([NewCall("processMessage", message, additionalContext,
                                   userContent, BufferedWarns, "generateText")
                             EXCEPT !.messages = ModelMessages(conversationHistory')])
    /\ issued' = issued + 1
    /\ UNCHANGED <<config, integrations>>

\* a processMessage that returns the text without recording it
GenerateTextResolvesNoPush(c, text) ==
    /\ calls[c].pc = "generateText"
    /\ calls' = [calls EXCEPT ![c].pc = "returned", ![c].modelCall = "resolved",
                              ![c].text = text, ![c].histAfter = conversationHistory]
    /\ UNCHANGED <<config, conversationHistory, issued, integrations>>

\* a tool execution of the call returned the {error} payload
HasToolError(call) ==
    \E d \in 1..Len(call.delegations) : call.delegations[d].payload.kind = "error"

\* a processMessage that treats an {error} tool payload as a failure of the turn
GenerateTextResolvesUnwinds(c, text) ==
    /\ calls[c].pc = "generateText"
    /\ ToolsSettled(calls[c])
    /\ IF HasToolError(calls[c])
       THEN /\ conversationHistory' = Rollback(conversationHistory)
            /\ calls' = [calls EXCEPT ![c].pc = "thrown", ![c].modelCall = "resolved",
                                      ![c].text = text,
                                      ![c].histAfter = conversationHistory']
       ELSE /\ conversationHistory' = Append(conversationHistory, AssistantTurn(text))
            /\ calls' = [calls EXCEPT ![c].pc = "returned", ![c].modelCall = "resolved",
                                      ![c].text = text,
                                      ![c].histAfter = conversationHistory']
    /\ UNCHANGED <<config, issued, integrations>>

\* generateText resolves: the assistant turn is pushed and the response returned
GenerateTextResolves(c, text) ==
    /\ calls[c].pc = "generateText"
    /\ ToolsSettled(calls[c])
    /\ conversationHistory' = Append(conversationHistory, AssistantTurn(text))
    /\ calls' = [calls EXCEPT ![c].pc = "returned", ![c].modelCall = "resolved",
                              ![c].text = text, ![c].histAfter = conversationHistory']
    /\ UNCHANGED <<config, issued, integrations>>

\* generateText rejects: the catch block pops the history and rethrows
GenerateTextRejects(c) ==
    /\ calls[c].pc = "generateText"
    /\ conversationHistory' = Rollback(conversationHistory)
    /\ calls' = [calls EXCEPT ![c].pc = "thrown", ![c].modelCall = "rejected",
                              ![c].histAfter = conversationHistory']
    /\ UNCHANGED <<config, issued, integrations>>

\* processMessageStream: it has no await, so the whole call is one step;
\* streamText either returns a result or throws synchronously
ProcessMessageStream(message, additionalContext, streamTextThrows) ==
    /\ LET userContent == StreamUserContent(message, additionalContext)
           pushed == Append(conversationHistory, UserTurn(userContent)) IN
        IF streamTextThrows
        THEN /\ conversationHistory' = Rollback(pushed)
             /\ calls' = Issue([NewCall("processMessageStream", message,
                                        additionalContext, userContent, FALSE, "thrown")
                                  EXCEPT !.modelCall = "rejected",
                                         !.histAfter = conversationHistory',
                                         !.messages = ModelMessages(pushed)])
        ELSE /\ conversationHistory' = pushed
             /\ calls' = Issue([NewCall("processMessageStream", message,
                                        additionalContext, userContent, FALSE,
                                        "streaming")
                                  EXCEPT !.messages = ModelMessages(pushed)])
    /\ issued' = issued + 1
    /\ UNCHANGED <<config, integrations>>

\* the consumer asks enhancedTextStream for the next chunk and the model's
\* stream yields one
StreamYields(c, chunk) ==
    /\ calls[c].pc = "streaming"
    /\ calls[c].chunkCount < MaxChunks
    /\ calls' = [calls EXCEPT ![c].chunkCount = @ + 1,
                              ![c].fullText = @ \o chunk,
                              ![c].yielded = Append(@, chunk)]
    /\ UNCHANGED <<config, conversationHistory, issued, integrations>>

\* the consumer asks for the next chunk and the model's stream has ended:
\* the loop exits and the assistant turn is pushed
StreamEnds(c) ==
    /\ calls[c].pc = "streaming"
    /\ ToolsSettled(calls[c])
    /\ conversationHistory' =
          Append(conversationHistory, AssistantTurn(calls[c].fullText))
    /\ calls' = [calls EXCEPT ![c].pc = "drained", ![c].histAfter = conversationHistory']
    /\ UNCHANGED <<config, issued, integrations>>

\* the consumer asks for the next chunk and the model's stream throws: the
\* generator has no try block, the error leaves it
StreamThrows(c) ==
    /\ calls[c].pc = "streaming"
    /\ calls' = [calls EXCEPT ![c].pc = "failed", ![c].histAfter = conversationHistory]
    /\ UNCHANGED <<config, conversationHistory, issued, integrations>>

\* a generator that commits the accumulated text when it is closed early
StreamAbandonedCommits(c) ==
    /\ calls[c].pc = "streaming"
    /\ conversationHistory' =
          Append(conversationHistory, AssistantTurn(calls[c].fullText))
    /\ calls' = [calls EXCEPT ![c].pc = "abandoned", ![c].histAfter = conversationHistory']
    /\ UNCHANGED <<config, issued, integrations>>

\* the consumer stops reading (return() on the generator, or never reads it)
StreamAbandoned(c) ==
    /\ calls[c].pc = "streaming"
    /\ calls' = [calls EXCEPT ![c].pc = "abandoned", ![c].histAfter = conversationHistory]
    /\ UNCHANGED <<config, conversationHistory, issued, integrations>>

\* a clearHistory that drops the system prompt too
ClearHistoryEmpties ==
    /\ conversationHistory' = <<>>
    /\ UNCHANGED <<config, calls, issued, integrations>>

ClearHistory ==
    /\ conversationHistory' = <<SystemTurn>>
    /\ UNCHANGED <<config, calls, issued, integrations>>

----------------------------------------------------------------------------
(* Delegation tools *)

Tools == {"delegate_to_gmail", "delegate_to_calendar"}

ConnectorOf(tool) == IF tool = "delegate_to_gmail" THEN "gmail" ELSE "google_calendar"

\* a calendar agent created with the toolkit list of the gmail agent
ToolkitsOfGmailForAll(tool) == {"gmail"}

\* the toolkit createGmailAgent / createCalendarAgent asks Composio for
ToolkitsOf(tool) == IF tool = "delegate_to_gmail" THEN {"gmail"} ELSE {"googlecalendar"}

NotConnectedMessage(tool) ==
    IF tool = "delegate_to_gmail"
    THEN <<"Gmail not connected. Please connect Gmail first in your profile settings.">>
    ELSE <<"Google Calendar not connected. Please connect Calendar first in your profile settings.">>

TaskFailedLabel(tool) ==
    IF tool = "delegate_to_gmail" THEN "Gmail task failed: " ELSE "Calendar task failed: "

\* the values the awaited calls reject with: an Error, and a value without
\* a message property (the template then renders "undefined")
Thrown == {[message |-> Some("boom")], [message |-> None]}

MessageOf(error) == IF IsSome(error.message) THEN Get(error.message) ELSE "undefined"

ResultPayload(text) == [kind |-> "result", result |-> text, error |-> <<>>]
ErrorPayload(message) == [kind |-> "error", result |-> <<>>, error |-> message]
NoPayload == [kind |-> "none", result |-> <<>>, error |-> <<>>]

\* a connection id is a string; null and "" are falsy
TruthyId(id) == IsSome(id) /\ Get(id) # ""

\* this.config.connectionIds?.[connector] || null
ConfigConnectionId(connector) ==
    IF IsSome(config.connectionIds) /\ TruthyId(Get(config.connectionIds)[connector])
    THEN Get(config.connectionIds)[connector]
    ELSE None

\* a getConnectionId that does not look at the record's connectionStatus
GetConnectionIdAnyStatus(connector, lookupThrew, integration) ==
    IF lookupThrew THEN ConfigConnectionId(connector)
    ELSE IF IsSome(integration)
         THEN Some(Get(integration).connectionId)
         ELSE ConfigConnectionId(connector)

\* Orchestrator.getConnectionId, given how the store lookup settled
GetConnectionId(connector, lookupThrew, integration) ==
    IF lookupThrew THEN ConfigConnectionId(connector)
    ELSE IF IsSome(integration) /\ Get(integration).connectionStatus = "active"
         THEN Some(Get(integration).connectionId)
         ELSE ConfigConnectionId(connector)

NewDelegation(tool) ==
    [tool |-> tool, pc |-> "getConnectionId", path |-> <<"REQUESTED">>,
     connectionId |-> None, toolkits |-> {}, payload |-> NoPayload]

\* calls[c].delegations[d] replaced by `delegation`
WithDelegation(c, d, delegation) ==
    [calls EXCEPT ![c].delegations[d] = delegation]

\* the model call of call c invokes a delegation tool: execute() starts and
\* awaits getConnectionId
ToolExecute(c, tool) ==
    /\ HasDelegationTools
    /\ InFlight(c)
    /\ Len(calls[c].delegations) < MaxDelegations
    /\ calls' = [calls EXCEPT ![c].delegations = Append(@, NewDelegation(tool))]
    /\ UNCHANGED <<config, conversationHistory, issued, integrations>>

\* getConnectionId settles: without a connection id execute() returns the
\* "not connected" payload, with one it goes on to the try block
ConnectionSettles(c, d, lookupThrew) ==
    /\ calls[c].delegations[d].pc = "getConnectionId"
    /\ LET del == calls[c].delegations[d]
           connectionId == GetConnectionId(ConnectorOf(del.tool), lookupThrew,
                                           integrations[ConnectorOf(del.tool)]) IN
        IF ~TruthyId(connectionId)
        THEN calls' = WithDelegation(c, d,
                [del EXCEPT !.pc = "returned",
                            !.path = Append(@, "CONNECTION_UNAVAILABLE"),
                            !.payload = ErrorPayload(NotConnectedMessage(del.tool))])
        ELSE calls' = WithDelegation(c, d,
                [del EXCEPT !.pc = "resolved",
                            !.path = Append(@, "CONNECTION_RESOLVED"),
                            !.connectionId = connectionId])
    /\ UNCHANGED <<config, conversationHistory, issued, integrations>>

\* execute() enters its try block and awaits createGmailAgent / createCalendarAgent
CreateAgentCalled(c, d) ==
    /\ calls[c].delegations[d].pc = "resolved"
    /\ calls' = WithDelegation(c, d,
            [calls[c].delegations[d] EXCEPT !.pc = "createAgent",
                                            !.path = Append(@, "EXECUTING")])
    /\ UNCHANGED <<config, conversationHistory, issued, integrations>>

\* the agent is created with its toolkit; execute() awaits the task
CreateAgentResolves(c, d) ==
    /\ calls[c].delegations[d].pc = "createAgent"
    /\ calls' = WithDelegation(c, d,
            [calls[c].delegations[d] EXCEPT
                !.pc = "executeTask",
                !.toolkits = ToolkitsOf(calls[c].delegations[d].tool)])
    /\ UNCHANGED <<config, conversationHistory, issued, integrations>>

\* a catch block that lets the error escape execute()
DelegationCaughtRethrows(tool, error) ==
    [kind |-> "thrown", result |-> <<>>, error |-> <<MessageOf(error)>>]

\* the catch block of execute(): the error becomes the {error} payload
DelegationCaught(tool, error) ==
    ErrorPayload(<<TaskFailedLabel(tool), MessageOf(error)>>)

\* createAgent or the task rejects: the catch block returns the payload
DelegationRejects(c, d, error) ==
    /\ calls[c].delegations[d].pc \in {"createAgent", "executeTask"}
    /\ calls' = WithDelegation(c, d,
            [calls[c].delegations[d] EXCEPT
                !.pc = "returned",
                !.path = Append(@, "FAILED"),
                !.payload = DelegationCaught(calls[c].delegations[d].tool, error)])
    /\ UNCHANGED <<config, conversationHistory, issued, integrations>>

\* the task resolves with the delegate's text: execute() returns {result}
ExecuteTaskResolves(c, d, text) ==
    /\ calls[c].delegations[d].pc = "executeTask"
    /\ calls' = WithDelegation(c, d,
            [calls[c].delegations[d] EXCEPT !.pc = "returned",
                                            !.path = Append(@, "COMPLETED"),
                                            !.payload = ResultPayload(text)])
    /\ UNCHANGED <<config, conversationHistory, issued, integrations>>

\* the integration store changes (the user connects or disconnects a connector)
IntegrationChanges(connector, integration) ==
    /\ integrations[connector] # integration
    /\ integrations' = [integrations EXCEPT ![connector] = integration]
    /\ UNCHANGED <<config, conversationHistory, calls, issued>>

----------------------------------------------------------------------------
(* The web-chat handler *)

\* the orchestrator the handler creates: COMPOSIO_API_KEY unset, so
\* composioApiKey is ''
HandlerConfigInput ==
    [hasTone |-> FALSE, toneOfResponse |-> None, composioApiKey |-> Some(<<>>),
     connectionIds |-> None]

\* claims.sub of the verified token
UserId == "user-sub"

\* the status code the catch block of lambdaHandler derives from the message
StatusCodeOf(message) ==
    IF message \in {"Missing Authorization header", "Invalid or expired token",
                    "Unexpected token in JSON"}
    THEN 401
    ELSE IF message \in {"Invalid request: messages array is required",
                         "Invalid request: at least one message is required"}
    THEN 400
    ELSE 500

\* responseStream.write(formatSSE(message)) for each message, in order
RECURSIVE Written(_, _)
Written(wire, messages) ==
    IF messages = <<>> THEN wire
    ELSE Written(Append(wire, formatSSE(Head(messages))), Tail(messages))

\* a catch block that reports the failure and then the completion
GeneratorFailureThenComplete(error) ==
    <<ErrorEvent(ErrorMessageOr(error, "Internal streaming error")), CompleteEvent>>

\* a catch block that logs the failure and yields nothing
GeneratorFailureSwallowed(error) == <<>>

\* what streamOrchestratorResponse yields from its catch block
GeneratorFailure(error) ==
    <<ErrorEvent(ErrorMessageOr(error, "Internal streaming error"))>>

\* the handler is invoked with a request and awaits verifyAuthToken
Invoke(request) ==
    /\ response.pc = "idle"
    /\ response' = [response EXCEPT !.pc = "verifyAuthToken", !.request = request]
    /\ UNCHANGED <<config, conversationHistory, calls, issued, integrations>>

\* the catch block of lambdaHandler: error metadata, one error event, end()
CaughtByHandler(message) ==
    [response EXCEPT
        !.pc = "ended",
        !.metadata = Some(StatusCodeOf(message)),
        !.wire = Written(@, <<ErrorEvent(message)>>),
        !.ended = TRUE,
        !.failure = "handler"]

\* verifyAuthToken settles; the body is parsed and validated; the handler
\* awaits getSupermemoryApiKey
AuthSettles ==
    /\ response.pc = "verifyAuthToken"
    /\ response' =
          IF ~response.request.authorized
          THEN CaughtByHandler("Invalid or expired token")
          ELSE IF response.request.body = "missing"
          THEN CaughtByHandler("Missing request body")
          ELSE IF response.request.body = "malformed"
          THEN CaughtByHandler("Unexpected token in JSON")
          ELSE IF response.request.body = "noMessages"
          THEN CaughtByHandler("Invalid request: messages array is required")
          ELSE IF response.request.body = "empty"
          THEN CaughtByHandler("Invalid request: at least one message is required")
          ELSE [response EXCEPT !.pc = "getSupermemoryApiKey"]
    /\ UNCHANGED <<config, conversationHistory, calls, issued, integrations>>

\* getSupermemoryApiKey rejects
SecretRejects ==
    /\ response.pc = "getSupermemoryApiKey"
    /\ response' =
          CaughtByHandler("Failed to retrieve Supermemory API key from Secrets Manager")
    /\ UNCHANGED <<config, conversationHistory, calls, issued, integrations>>

\* the metadata and the connection event are written
Connected ==
    [response EXCEPT !.metadata = Some(200),
                     !.wire = Written(@, <<ConnectionEvent(UserId)>>)]

\* the generator ended after yielding `messages`: they are written and the
\* response stream is ended
Finished(resp, messages) ==
    [resp EXCEPT !.pc = "ended", !.wire = Written(@, messages), !.ended = TRUE]

\* the generator ended in its catch block
Failed(resp, error) ==
    [Finished(resp, GeneratorFailure(error)) EXCEPT !.failure = "generator"]

NoUserMessages == [message |-> Some("No user messages found in request")]

\* getSupermemoryApiKey resolves and the generator fails before it has a
\* stream: createOrchestrator throws, or the request holds no user message
ConnectsAndFails(error) ==
    /\ response.pc = "getSupermemoryApiKey"
    /\ response.request.body \in {"noUser", "ok"}
    /\ error = NoUserMessages => response.request.body = "noUser"
    /\ response' = Failed(Connected, error)
    /\ UNCHANGED <<config, conversationHistory, calls, issued, integrations>>

\* getSupermemoryApiKey resolves, the orchestrator is created and
\* processMessageStream is called: streamText throws, or the generator goes
\* on to read the text stream
ConnectsAndStreams(message, streamTextThrows, error) ==
    /\ response.pc = "getSupermemoryApiKey"
    /\ response.request.body = "ok"
    /\ ProcessMessageStream(message, None, streamTextThrows)
    /\ response' =
          IF streamTextThrows
          THEN Failed(Connected, error)
          ELSE [Connected EXCEPT !.pc = "streaming"]

\* chunkId++
ChunkIdUnchanged(chunkId) == chunkId

ChunkIdAfter(chunkId) == chunkId + 1

\* the text stream yields a chunk: one message event is written
HandlerChunk(chunk) ==
    /\ response.pc = "streaming"
    /\ StreamYields(1, chunk)
    /\ response' = [response EXCEPT
            !.wire = Written(@, <<MessageEvent(chunk, response.chunkId)>>),
            !.chunkId = ChunkIdAfter(@)]

\* the text stream ends: the complete event is written and the response ended
HandlerComplete ==
    /\ response.pc = "streaming"
    /\ StreamEnds(1)
    /\ response' = Finished(response, <<CompleteEvent>>)

\* the text stream throws while it is read: the catch block of the generator
HandlerStreamFails(error) ==
    /\ response.pc = "streaming"
    /\ StreamThrows(1)
    /\ response' = Failed(response, error)

----------------------------------------------------------------------------
(* The web-chat handler: the instruction built from the request's messages *)

\* ChatRequest.messages entries: a role and a content string
RequestContents == {<<"X">>, <<" ">>}

RequestEntries == [role : {"user", "assistant"}, content : RequestContents]

\* the message lists that pass the body checks of lambdaHandler (non-empty)
RequestMessageLists ==
    UNION {[1..n -> RequestEntries] : n \in 1..MaxRequestMessages}

\* requests whose body parses and holds a non-empty messages array
ChatRequests ==
    [authorized : BOOLEAN, body : {"ok"}, messages : RequestMessageLists]

\* messages.filter(m => m.role === 'user')
FilterUser(messages) == SelectSeq(messages, LAMBDA m : m.role = "user")

\* .map(m => m.content)
MapContent(messages) == [i \in 1..Len(messages) |-> messages[i].content]

\* .join(separator)
RECURSIVE Join(_, _)
Join(parts, separator) ==
    IF parts = <<>> THEN <<>>
    ELSE IF Len(parts) = 1 THEN parts[1]
    ELSE parts[1] \o separator \o Join(Tail(parts), separator)

\* a combinedMessage built from the entries of every role
CombinedMessageAllRoles(messages) == Join(MapContent(messages), <<"\n\n">>)

\* combinedMessage
CombinedMessage(messages) == Join(MapContent(FilterUser(messages)), <<"\n\n">>)

\* the pieces String.prototype.trim removes
WhitespacePieces == {" ", "\n", "\n\n", "\t"}

\* !combinedMessage.trim()
IsBlank(text) == \A i \in 1..Len(text) : text[i] \in WhitespacePieces

\* getSupermemoryApiKey resolves and the generator fails before it has a
\* stream: createOrchestrator throws, or combinedMessage is blank
CombinesAndFails(createThrows, error) ==
    /\ response.pc = "getSupermemoryApiKey"
    /\ response.request.body = "ok"
    /\ IF createThrows
       THEN response' = Failed(Connected, error)
       ELSE /\ IsBlank(CombinedMessage(response.request.messages))
            /\ response' = Failed(Connected, NoUserMessages)
    /\ UNCHANGED <<config, conversationHistory, calls, issued, integrations>>

\* getSupermemoryApiKey resolves, the orchestrator is created and
\* processMessageStream is called with combinedMessage
CombinesAndStreams(streamTextThrows, error) ==
    /\ response.pc = "getSupermemoryApiKey"
    /\ response.request.body = "ok"
    /\ ~IsBlank(CombinedMessage(response.request.messages))
    /\ ConnectsAndStreams(CombinedMessage(response.request.messages),
                          streamTextThrows, error)

----------------------------------------------------------------------------
(* The useChatStream hook *)

StartsWith(line, prefix) == Len(line) >= 1 /\ line[1] = prefix

\* the loop of parseSSEChunk: the last event line and the last data line win
RECURSIVE ParseLines(_, _, _)
ParseLines(lines, event, data) ==
    IF lines = <<>> THEN [event |-> event, data |-> data]
    ELSE LET line == Head(lines) IN
         IF StartsWith(line, "event: ")
         THEN ParseLines(Tail(lines), Trim(Tail(line)), data)
         ELSE IF StartsWith(line, "data: ")
         THEN ParseLines(Tail(lines), event, Tail(line))
         ELSE ParseLines(Tail(lines), event, data)

\* null when no data was found
parseSSEChunk(chunk) ==
    LET parsed == ParseLines(SplitLines(chunk), <<"message">>, <<>>) IN
    IF parsed.data # <<>> THEN Some(parsed) ELSE None

\* JSON.parse(data).error || 'Server error'
ServerErrorMessage(data) ==
    IF Len(data) = 3 /\ data[2] # "" THEN data[2] ELSE "Server error"

StreamErrorOf(message, code) == [message |-> message, code |-> code]

\* a completion that ignores completedRef
CompleteAlways(st) ==
    [st EXCEPT !.completed = TRUE,
               !.onComplete = Append(@, st.accumulatedMessage)]

\* if (!completedRef.current) { completedRef.current = true; onComplete?.(finalMessage) }
CompleteOnce(st) ==
    IF st.completed THEN st
    ELSE [st EXCEPT !.completed = TRUE,
                    !.onComplete = Append(@, st.accumulatedMessage)]

\* the outer catch block of startStream, for an error that is not an abort
CaughtByStartStream(st, message) ==
    [st EXCEPT !.pc = "returned", !.ending = "failed",
               !.error = Some(StreamErrorOf(message, "STREAM_ERROR")),
               !.status = "error", !.connectionStatus = "error",
               !.onError = Append(@, StreamErrorOf(message, "STREAM_ERROR")),
               !.abortController = FALSE]

\* startStream up to its await of getToken
StartStream ==
    /\ stream.pc = "idle"
    /\ ~stream.abortController
    /\ stream' = [stream EXCEPT !.pc = "getToken", !.status = "connecting",
                                 !.connectionStatus = "connecting", !.error = None,
                                 !.streamedMessage = <<>>,
                                 !.accumulatedMessage = <<>>, !.completed = FALSE]
    /\ UNCHANGED <<config, conversationHistory, calls, issued, integrations, response, held, hook>>

\* getToken rejects
TokenRejects ==
    /\ stream.pc = "getToken"
    /\ stream' = CaughtByStartStream(stream, "No token")
    /\ UNCHANGED <<config, conversationHistory, calls, issued, integrations, response, held, hook>>

\* getToken resolves: the AbortController is created and fetch is awaited
TokenResolves ==
    /\ stream.pc = "getToken"
    /\ stream' = [stream EXCEPT !.pc = "fetch", !.abortController = TRUE]
    /\ UNCHANGED <<config, conversationHistory, calls, issued, integrations, response, held, hook>>

\* fetch resolves with the response's status: not ok throws, ok gets the reader
FetchResolves ==
    /\ stream.pc = "fetch"
    /\ IsSome(response.metadata)
    /\ stream' =
          IF Get(response.metadata) # 200
          THEN CaughtByStartStream(stream, "HTTP error")
          ELSE [stream EXCEPT !.pc = "reading"]
    /\ UNCHANGED <<config, conversationHistory, calls, issued, integrations, response, held, hook>>

\* the switch of the read loop
Handled(st, parsed) ==
    IF parsed.event = <<"connection">>
    THEN [st EXCEPT !.connectionStatus = "connected", !.status = "streaming",
                    !.onConnection = @ + 1]
    ELSE IF parsed.event = <<"message">>
    THEN [st EXCEPT
            !.connectionStatus = "streaming",
            !.accumulatedMessage = @ \o parsed.data,
            !.streamedMessage = st.accumulatedMessage \o parsed.data,
            !.onMessageChunk =
                Append(@, [chunk |-> parsed.data,
                           fullMessage |-> st.accumulatedMessage \o parsed.data])]
    ELSE IF parsed.event = <<"complete">>
    THEN CompleteOnce([st EXCEPT !.status = "completed",
                                 !.connectionStatus = "connected"])
    ELSE IF parsed.event = <<"error">>
    THEN [st EXCEPT
            !.error = Some(StreamErrorOf(ServerErrorMessage(parsed.data), "SERVER_ERROR")),
            !.status = "error", !.connectionStatus = "error",
            !.onError = Append(@, StreamErrorOf(ServerErrorMessage(parsed.data),
                                                "SERVER_ERROR"))]
    ELSE st

\* reader.read() resolves with the next n events the handler wrote
Read(n) ==
    /\ stream.pc = "reading"
    /\ stream.read + n <= Len(response.wire)
    /\ LET frames == [i \in 1..n |-> stream.read + i]
           chunkText == Concat([i \in 1..n |-> response.wire[stream.read + i]])
           parsed == parseSSEChunk(chunkText)
           seen == [stream EXCEPT !.read = @ + n, !.lastRead = frames,
                                  !.lastParsed = parsed] IN
        stream' = IF IsSome(parsed) THEN Handled(seen, Get(parsed)) ELSE seen
    /\ UNCHANGED <<config, conversationHistory, calls, issued, integrations, response, held, hook>>

\* reader.read() resolves with done: the response ended and all of it was
\* read, or the connection was closed before the handler wrote its last event
ReadDone(early) ==
    /\ stream.pc = "reading"
    /\ IF early THEN ~response.ended
       ELSE response.ended /\ stream.read = Len(response.wire)
    /\ stream' = [CompleteOnce([stream EXCEPT !.status = "completed",
                                              !.connectionStatus = "connected"])
                    EXCEPT !.pc = "returned",
                           !.ending = IF early THEN "closedEarly" ELSE "done",
                           !.abortController = FALSE]
    /\ UNCHANGED <<config, conversationHistory, calls, issued, integrations, response, held, hook>>

\* fetch or reader.read() rejects with a network error
TransportFails ==
    /\ stream.pc \in {"fetch", "reading"}
    /\ stream' = CaughtByStartStream(stream, "network error")
    /\ UNCHANGED <<config, conversationHistory, calls, issued, integrations, response, held, hook>>

\* stopStream while a stream is active; the awaited fetch or read then
\* rejects with an AbortError, which startStream ignores
StopStream ==
    /\ stream.abortController
    /\ stream' = [CompleteOnce([stream EXCEPT !.status = "completed"])
                    EXCEPT !.pc = "returned", !.ending = "stopStream",
                           !.abortController = FALSE]
    /\ UNCHANGED <<config, conversationHistory, calls, issued, integrations, response, held, hook>>

\* the cleanup of the effect, on unmount: the stream is aborted
Unmount ==
    /\ stream.abortController
    /\ stream' = [stream EXCEPT !.pc = "returned", !.ending = "unmount",
                                 !.abortController = FALSE]
    /\ UNCHANGED <<config, conversationHistory, calls, issued, integrations, response, held, hook>>

----------------------------------------------------------------------------
(* The useChatStream hook: several startStream calls on one hook *)

\* an activation of startStream: where it is, the AbortController it created
\* (0 before it has one) and whether that controller was aborted
NewRun(pc) == [pc |-> pc, controller |-> 0, aborted |-> FALSE]

\* the activation holds an open connection that was not aborted
IsActive(run) == run.pc \in {"fetch", "reading"} /\ ~run.aborted

HookFrame ==
    UNCHANGED <<config, conversationHistory, calls, issued, integrations,
                response, stream, held>>

\* startStream is called: it returns at once when the ref holds a controller,
\* and otherwise goes on to await getToken
HookStartStream ==
    /\ Len(hook.runs) < MaxStreams
    /\ hook' = [hook EXCEPT !.runs =
                    Append(@, NewRun(IF hook.abortControllerRef # 0
                                     THEN "refused" ELSE "getToken"))]
    /\ HookFrame

\* getToken resolves: the activation creates its controller, stores it in
\* the ref and starts the fetch
HookTokenResolves(r) ==
    /\ hook.runs[r].pc = "getToken"
    /\ hook' = [hook EXCEPT !.controllers = @ + 1,
                            !.abortControllerRef = hook.controllers + 1,
                            !.runs[r].pc = "fetch",
                            !.runs[r].controller = hook.controllers + 1]
    /\ HookFrame

\* the catch block of startStream for an error that is not an AbortError: it
\* reports the error and sets the ref to null
HookCaught(r) ==
    [hook EXCEPT !.abortControllerRef = 0, !.runs[r].pc = "failed"]

\* getToken rejects
HookTokenRejects(r) ==
    /\ hook.runs[r].pc = "getToken"
    /\ hook' = HookCaught(r)
    /\ HookFrame

\* fetch resolves with a response that is ok and has a body
HookFetchResolves(r) ==
    /\ hook.runs[r].pc = "fetch"
    /\ ~hook.runs[r].aborted
    /\ hook' = [hook EXCEPT !.runs[r].pc = "reading"]
    /\ HookFrame

\* reader.read() resolves with done: the loop is left and the finally block
\* sets the ref to null
HookReadDone(r) ==
    /\ hook.runs[r].pc = "reading"
    /\ ~hook.runs[r].aborted
    /\ hook' = [hook EXCEPT !.abortControllerRef = 0, !.runs[r].pc = "returned"]
    /\ HookFrame

\* fetch rejects or answers with an error status, or reader.read() rejects
HookTransportFails(r) ==
    /\ IsActive(hook.runs[r])
    /\ hook' = HookCaught(r)
    /\ HookFrame

\* stopStream: the controller the ref holds is aborted and the ref set to null
HookStopStream ==
    /\ hook.abortControllerRef # 0
    /\ hook' = [hook EXCEPT
            !.abortControllerRef = 0,
            !.runs = [r \in 1..Len(hook.runs) |->
                        IF hook.runs[r].controller = hook.abortControllerRef
                        THEN [hook.runs[r] EXCEPT !.aborted = TRUE]
                        ELSE hook.runs[r]]]
    /\ HookFrame

\* the awaited fetch or read of an aborted activation rejects with an
\* AbortError: a read leaves through the finally block, which sets the ref to
\* null; the catch block returns
HookAbortSettles(r) ==
    /\ hook.runs[r].pc \in {"fetch", "reading"}
    /\ hook.runs[r].aborted
    /\ hook' = [hook EXCEPT
            !.abortControllerRef = IF hook.runs[r].pc = "reading" THEN 0 ELSE @,
            !.runs[r].pc = "aborted"]
    /\ HookFrame

----------------------------------------------------------------------------
(* Specification: the web-chat handler and the hook that reads its response *)

\* chunks of the model stream, one of them with a newline in it
StreamedChunks == Chunks \cup {<<"a", "\n", "b">>}

InitChat == InitWith(HandlerConfigInput, NoIntegrations)

NextChat ==
    \/ StartStream
    \/ TokenRejects
    \/ TokenResolves
    \/ \E request \in Requests :
            stream.pc = "fetch" /\ Invoke(request) /\ UNCHANGED <<stream, held, hook>>
    \/ AuthSettles /\ UNCHANGED <<stream, held, hook>>
    \/ SecretRejects /\ UNCHANGED <<stream, held, hook>>
    \/ \E e \in Thrown \cup {NoUserMessages} :
            ConnectsAndFails(e) /\ UNCHANGED <<stream, held, hook>>
    \/ \E m \in Messages, th \in BOOLEAN, e \in Thrown :
            ConnectsAndStreams(m, th, e) /\ UNCHANGED <<stream, held, hook>>
    \/ \E ch \in StreamedChunks : HandlerChunk(ch) /\ UNCHANGED <<stream, held, hook>>
    \/ HandlerComplete /\ UNCHANGED <<stream, held, hook>>
    \/ \E e \in Thrown : HandlerStreamFails(e) /\ UNCHANGED <<stream, held, hook>>
    \/ FetchResolves
    \/ \E n \in {1, 2} : Read(n)
    \/ \E early \in BOOLEAN : ReadDone(early)
    \/ TransportFails
    \/ StopStream
    \/ Unmount

SpecChat == InitChat /\ [][NextChat]_vars

\* a step of the handler: an awaited call settles, or the model stream moves
HandlerStep ==
    /\ \/ AuthSettles
       \/ SecretRejects
       \/ \E e \in Thrown \cup {NoUserMessages} : ConnectsAndFails(e)
       \/ \E m \in Messages, th \in BOOLEAN, e \in Thrown : ConnectsAndStreams(m, th, e)
       \/ \E ch \in StreamedChunks : HandlerChunk(ch)
       \/ HandlerComplete
       \/ \E e \in Thrown : HandlerStreamFails(e)
    /\ UNCHANGED <<stream, held, hook>>

\* every call the handler awaits settles, and the model stream is finite
FairSpecChat == SpecChat /\ WF_vars(HandlerStep)

----------------------------------------------------------------------------
(* Specification: startStream and stopStream calls on one hook *)

NextHook ==
    \/ HookStartStream
    \/ \E r \in 1..Len(hook.runs) : HookTokenResolves(r)
    \/ \E r \in 1..Len(hook.runs) : HookTokenRejects(r)
    \/ \E r \in 1..Len(hook.runs) : HookFetchResolves(r)
    \/ \E r \in 1..Len(hook.runs) : HookReadDone(r)
    \/ \E r \in 1..Len(hook.runs) : HookTransportFails(r)
    \/ HookStopStream
    \/ \E r \in 1..Len(hook.runs) : HookAbortSettles(r)

SpecHook == InitChat /\ [][NextHook]_vars

----------------------------------------------------------------------------
(* Specification: the web-chat handler, one request with its message list *)

NextRequest ==
    \/ \E request \in ChatRequests : Invoke(request) /\ UNCHANGED <<stream, held, hook>>
    \/ AuthSettles /\ UNCHANGED <<stream, held, hook>>
    \/ SecretRejects /\ UNCHANGED <<stream, held, hook>>
    \/ \E th \in BOOLEAN, e \in Thrown :
            CombinesAndFails(th, e) /\ UNCHANGED <<stream, held, hook>>
    \/ \E th \in BOOLEAN, e \in Thrown :
            CombinesAndStreams(th, e) /\ UNCHANGED <<stream, held, hook>>
    \/ \E ch \in Chunks : HandlerChunk(ch) /\ UNCHANGED <<stream, held, hook>>
    \/ HandlerComplete /\ UNCHANGED <<stream, held, hook>>
    \/ \E e \in Thrown : HandlerStreamFails(e) /\ UNCHANGED <<stream, held, hook>>

SpecRequest == InitChat /\ [][NextRequest]_vars

----------------------------------------------------------------------------
(* getHistory and the arrays the caller holds *)

\* an array the caller holds: `live` when it is the very array object
\* this.conversationHistory refers to
HeldArray(live, turns) == [live |-> live, turns |-> turns]

\* a getHistory that hands out this.conversationHistory itself
GetHistoryAliased == HeldArray(TRUE, conversationHistory)

\* [...this.conversationHistory]: a new array with the same turns
GetHistory == HeldArray(FALSE, conversationHistory)

\* the caller calls getHistory and keeps what it returns
CallerGetsHistory ==
    /\ Len(held) < MaxHeld
    /\ held' = Append(held, GetHistory)
    /\ UNCHANGED <<config, conversationHistory, calls, issued, integrations,
                   response, stream, hook>>

\* the caller writes `turns` into the array held[h]: every reference to that
\* array object sees the write
CallerWrites(h, turns) ==
    /\ held' = [i \in 1..Len(held) |->
                  IF i = h \/ (held[h].live /\ held[i].live)
                  THEN [held[i] EXCEPT !.turns = turns]
                  ELSE held[i]]
    /\ conversationHistory' = IF held[h].live THEN turns ELSE conversationHistory
    /\ UNCHANGED <<config, calls, issued, integrations, response, stream, hook>>

\* a turn of the caller's own making
InjectedTurn == UserTurn(<<"injected">>)

\* held[h].push(turn)
CallerPushes(h) ==
    /\ Len(held[h].turns) < MaxHeldTurns
    /\ CallerWrites(h, Append(held[h].turns, InjectedTurn))

\* held[h].pop()
CallerPops(h) ==
    /\ held[h].turns # <<>>
    /\ CallerWrites(h, Front(held[h].turns))

\* held[h][i] = turn
CallerReplaces(h, i) ==
    /\ held[h].turns[i] # InjectedTurn
    /\ CallerWrites(h, [held[h].turns EXCEPT ![i] = InjectedTurn])

\* push and pop change the array object in place: a live array follows
Following ==
    [i \in 1..Len(held) |->
        IF held[i].live THEN [held[i] EXCEPT !.turns = conversationHistory']
        ELSE held[i]]

\* clearHistory assigns a new array: an array that was live no longer is
Detached == [i \in 1..Len(held) |-> [held[i] EXCEPT !.live = FALSE]]

NextSnapshot ==
    \/ \E m \in Messages :
            /\ issued < MaxSnapshotCalls /\ Idle /\ ProcessMessage(m, None)
            /\ held' = Following /\ UNCHANGED <<response, stream, hook>>
    \/ \E c \in 1..Len(calls), t \in Texts :
            /\ GenerateTextResolves(c, t)
            /\ held' = Following /\ UNCHANGED <<response, stream, hook>>
    \/ \E c \in 1..Len(calls) :
            /\ GenerateTextRejects(c)
            /\ held' = Following /\ UNCHANGED <<response, stream, hook>>
    \/ /\ Idle /\ Len(conversationHistory) > 1 /\ ClearHistory
       /\ held' = Detached /\ UNCHANGED <<response, stream, hook>>
    \/ CallerGetsHistory
    \/ \E h \in 1..Len(held) : CallerPushes(h)
    \/ \E h \in 1..Len(held) : CallerPops(h)
    \/ \E h \in 1..Len(held) : \E i \in 1..Len(held[h].turns) : CallerReplaces(h, i)

SpecSnapshot == Init /\ [][NextSnapshot]_vars

----------------------------------------------------------------------------
(* setHistory *)

\* setHistory(held[h]): this.conversationHistory = messages.  The field now
\* refers to the caller's array object; the array it referred to before is
\* no longer the orchestrator's
SetHistory(h) ==
    /\ ~held[h].live
    /\ conversationHistory' = held[h].turns
    /\ held' = [i \in 1..Len(held) |-> [held[i] EXCEPT !.live = (i = h)]]
    /\ UNCHANGED <<config, calls, issued, integrations, response, stream, hook>>

\* the caller takes and edits arrays as under SpecSnapshot, and calls
\* setHistory between turns with an array it holds
NextRestore ==
    \/ \E m \in Messages :
            /\ issued < MaxRestoreCalls /\ Idle /\ ProcessMessage(m, None)
            /\ held' = Following /\ UNCHANGED <<response, stream, hook>>
    \/ \E c \in 1..Len(calls), t \in Texts :
            /\ GenerateTextResolves(c, t)
            /\ held' = Following /\ UNCHANGED <<response, stream, hook>>
    \/ \E c \in 1..Len(calls) :
            /\ GenerateTextRejects(c)
            /\ held' = Following /\ UNCHANGED <<response, stream, hook>>
    \/ CallerGetsHistory
    \/ \E h \in 1..Len(held) : CallerPushes(h)
    \/ \E h \in 1..Len(held) : CallerPops(h)
    \/ \E h \in 1..Len(held) : \E i \in 1..Len(held[h].turns) : CallerReplaces(h, i)
    \/ \E h \in 1..Len(held) : Idle /\ SetHistory(h)

SpecRestore == Init /\ [][NextRestore]_vars

----------------------------------------------------------------------------
(* Specification: calls issued one at a time, default configuration *)

Next ==
    \/ \E m \in Messages : issued < MaxCalls /\ Idle /\ ProcessMessage(m, None) /\ UNCHANGED others
    \/ \E m \in Messages, th \in BOOLEAN :
            issued < MaxCalls /\ Idle /\ ProcessMessageStream(m, None, th) /\ UNCHANGED others
    \/ Idle /\ ClearHistory /\ UNCHANGED others
    \/ \E c \in 1..Len(calls), t \in Texts : GenerateTextResolves(c, t) /\ UNCHANGED others
    \/ \E c \in 1..Len(calls) : GenerateTextRejects(c) /\ UNCHANGED others
    \/ \E c \in 1..Len(calls), ch \in Chunks : StreamYields(c, ch) /\ UNCHANGED others
    \/ \E c \in 1..Len(calls) : StreamEnds(c) /\ UNCHANGED others
    \/ \E c \in 1..Len(calls) : StreamThrows(c) /\ UNCHANGED others
    \/ \E c \in 1..Len(calls) : StreamAbandoned(c) /\ UNCHANGED others

Spec == Init /\ [][Next]_vars

----------------------------------------------------------------------------
(* Specification: calls that overlap on one orchestrator *)

\* two messages, so that the turns of two calls can be told apart
OverlappingMessages == {<<"X">>, <<"Y">>}

\* nothing in the orchestrator keeps a call from being issued, or the history
\* from being cleared, while another call awaits its model call
NextConcurrent ==
    \/ \E m \in OverlappingMessages :
            issued < MaxConcurrentCalls /\ ProcessMessage(m, None) /\ UNCHANGED others
    \/ \E m \in OverlappingMessages, th \in BOOLEAN :
            issued < MaxConcurrentCalls /\ ProcessMessageStream(m, None, th)
                /\ UNCHANGED others
    \/ conversationHistory # <<SystemTurn>> /\ ClearHistory /\ UNCHANGED others
    \/ \E c \in 1..Len(calls), t \in Texts : GenerateTextResolves(c, t) /\ UNCHANGED others
    \/ \E c \in 1..Len(calls) : GenerateTextRejects(c) /\ UNCHANGED others
    \/ \E c \in 1..Len(calls) : StreamEnds(c) /\ UNCHANGED others

SpecConcurrent == Init /\ [][NextConcurrent]_vars

----------------------------------------------------------------------------
(* Specification: one orchestrator per tone value *)

ToneConfigInputs ==
    {DefaultConfigInput}
    \cup {[hasTone |-> TRUE, toneOfResponse |-> t, composioApiKey |-> None,
           connectionIds |-> None] : t \in ToneInputs}

InitTone == \E given \in ToneConfigInputs : InitWith(given, NoIntegrations)

NextTone ==
    \/ \E m \in Messages, a \in Contexts :
            issued < MaxToneCalls /\ Idle /\ ProcessMessage(m, a) /\ UNCHANGED others
    \/ \E m \in Messages, a \in Contexts, th \in BOOLEAN :
            issued < MaxToneCalls /\ Idle /\ ProcessMessageStream(m, a, th) /\ UNCHANGED others
    \/ Idle /\ ClearHistory /\ UNCHANGED others
    \/ \E c \in 1..Len(calls), t \in Texts : GenerateTextResolves(c, t) /\ UNCHANGED others
    \/ \E c \in 1..Len(calls) : GenerateTextRejects(c) /\ UNCHANGED others
    \/ \E c \in 1..Len(calls), ch \in Chunks : StreamYields(c, ch) /\ UNCHANGED others
    \/ \E c \in 1..Len(calls) : StreamEnds(c) /\ UNCHANGED others
    \/ \E c \in 1..Len(calls) : StreamThrows(c) /\ UNCHANGED others
    \/ \E c \in 1..Len(calls) : StreamAbandoned(c) /\ UNCHANGED others

SpecTone == InitTone /\ [][NextTone]_vars

----------------------------------------------------------------------------
(* Specification: an orchestrator with delegation tools *)

\* what the store holds for a connector: nothing, or a record
IntegrationValues ==
    {None,
     Some([connectionStatus |-> "active", connectionId |-> "conn_store"]),
     Some([connectionStatus |-> "inactive", connectionId |-> "conn_store"])}

\* config.connectionIds: not given, or a fallback id for gmail alone
ConnectionIdInputs ==
    {None, Some([c \in Connectors |-> IF c = "gmail" THEN Some("conn_config") ELSE None])}

DelegationConfigInputs ==
    {[hasTone |-> FALSE, toneOfResponse |-> None, composioApiKey |-> Some(<<"key">>),
      connectionIds |-> ids] : ids \in ConnectionIdInputs}

DelegationStores ==
    {[c \in Connectors |-> IF c = "gmail" THEN g ELSE None] : g \in IntegrationValues}

InitDelegation ==
    \E given \in DelegationConfigInputs, store \in DelegationStores :
        InitWith(given, store)

DelegationIds(c) == 1..Len(calls[c].delegations)

NextDelegation ==
    \/ \E m \in Messages :
            issued < MaxDelegationCalls /\ Idle /\ ProcessMessage(m, None) /\ UNCHANGED others
    \/ \E c \in 1..Len(calls), t \in Texts : GenerateTextResolves(c, t) /\ UNCHANGED others
    \* generateText awaits the tool executions of a step before the model
    \* step that can fail
    \/ \E c \in 1..Len(calls) : ToolsSettled(calls[c]) /\ GenerateTextRejects(c) /\ UNCHANGED others
    \/ \E c \in 1..Len(calls), tool \in Tools : ToolExecute(c, tool) /\ UNCHANGED others
    \/ \E c \in 1..Len(calls) : \E d \in DelegationIds(c), th \in BOOLEAN :
            ConnectionSettles(c, d, th) /\ UNCHANGED others
    \/ \E c \in 1..Len(calls) : \E d \in DelegationIds(c) : CreateAgentCalled(c, d) /\ UNCHANGED others
    \/ \E c \in 1..Len(calls) : \E d \in DelegationIds(c) : CreateAgentResolves(c, d) /\ UNCHANGED others
    \/ \E c \in 1..Len(calls) : \E d \in DelegationIds(c), e \in Thrown :
            DelegationRejects(c, d, e) /\ UNCHANGED others
    \/ \E c \in 1..Len(calls) : \E d \in DelegationIds(c), t \in Texts :
            ExecuteTaskResolves(c, d, t) /\ UNCHANGED others
    \/ \E g \in IntegrationValues : IntegrationChanges("gmail", g) /\ UNCHANGED others

SpecDelegation == InitDelegation /\ [][NextDelegation]_vars

\* a step of a tool execution: an awaited call settles, or execute() goes on
DelegationStep ==
    /\ \E c \in 1..Len(calls) : \E d \in DelegationIds(c) :
        \/ \E th \in BOOLEAN : ConnectionSettles(c, d, th)
        \/ CreateAgentCalled(c, d)
        \/ CreateAgentResolves(c, d)
        \/ \E e \in Thrown : DelegationRejects(c, d, e)
        \/ \E t \in Texts : ExecuteTaskResolves(c, d, t)
    /\ UNCHANGED others

\* every call execute() awaits (the store lookup, the agent's creation, the
\* task) settles in the end, and the event loop runs what is ready
FairSpecDelegation == SpecDelegation /\ WF_vars(DelegationStep)

----------------------------------------------------------------------------
(* Specification: an orchestrator whose two connectors both resolve *)

\* a development configuration: a Composio key and a connection id for each
\* connector
IsolationConfigInput ==
    [hasTone |-> FALSE, toneOfResponse |-> None, composioApiKey |-> Some(<<"key">>),
     connectionIds |->
        Some([c \in Connectors |->
                IF c = "gmail" THEN Some("conn_config") ELSE Some("conn_calendar")])]

InitIsolation == InitWith(IsolationConfigInput, NoIntegrations)

NextIsolation ==
    \/ \E m \in Messages :
            issued < MaxDelegationCalls /\ Idle /\ ProcessMessage(m, None) /\ UNCHANGED others
    \/ \E c \in 1..Len(calls), t \in Texts : GenerateTextResolves(c, t) /\ UNCHANGED others
    \* generateText awaits the tool executions of a step before the model
    \* step that can fail
    \/ \E c \in 1..Len(calls) : ToolsSettled(calls[c]) /\ GenerateTextRejects(c) /\ UNCHANGED others
    \/ \E c \in 1..Len(calls), tool \in Tools : ToolExecute(c, tool) /\ UNCHANGED others
    \/ \E c \in 1..Len(calls) : \E d \in DelegationIds(c), th \in BOOLEAN :
            ConnectionSettles(c, d, th) /\ UNCHANGED others
    \/ \E c \in 1..Len(calls) : \E d \in DelegationIds(c) : CreateAgentCalled(c, d) /\ UNCHANGED others
    \/ \E c \in 1..Len(calls) : \E d \in DelegationIds(c) : CreateAgentResolves(c, d) /\ UNCHANGED others
    \/ \E c \in 1..Len(calls) : \E d \in DelegationIds(c), e \in Thrown :
            DelegationRejects(c, d, e) /\ UNCHANGED others
    \/ \E c \in 1..Len(calls) : \E d \in DelegationIds(c), t \in Texts :
            ExecuteTaskResolves(c, d, t) /\ UNCHANGED others

SpecIsolation == InitIsolation /\ [][NextIsolation]_vars

----------------------------------------------------------------------------
(* Properties of the history *)

CallIds == 1..Len(calls)

Buffered(c) == calls[c].method = "processMessage"
Streamed(c) == calls[c].method = "processMessageStream"

RoleCount(history, role) ==
    Cardinality({i \in 1..Len(history) : history[i].role = role})

\* C1: every successful processMessage call and every fully drained
\* processMessageStream call leaves the history two turns longer than it found
\* it, a user turn followed by an assistant turn, and the first turn of the
\* history is the system turn.
C1_HistoryIntegrity ==
    /\ Len(conversationHistory) >= 1
    /\ conversationHistory[1].role = "system"
    /\ \A c \in CallIds :
          calls[c].pc \in {"returned", "drained"} =>
            LET before == calls[c].histBefore
                after == calls[c].histAfter
                n == Len(calls[c].histBefore) IN
            /\ Len(after) = n + 2
            /\ SubSeq(after, 1, n) = before
            /\ after[n + 1].role = "user"
            /\ after[n + 2].role = "assistant"
            /\ after[1].role = "system"

\* a second successful call (a drained stream) on a history that already holds
\* one complete exchange
C1_Witness ==
    \E c \in CallIds :
        /\ calls[c].pc = "drained"
        /\ Len(calls[c].histBefore) = 3
        /\ Len(conversationHistory) = 5

\* C2: when generateText throws inside processMessage the call ends by
\* rethrowing and the history it leaves equals the history it found.
C2_FailureRollback ==
    \A c \in CallIds :
        (Buffered(c) /\ calls[c].modelCall = "rejected") =>
            /\ calls[c].pc = "thrown"
            /\ calls[c].histAfter = calls[c].histBefore

\* a failed processMessage on a history that holds an earlier exchange
C2_Witness ==
    \E c \in CallIds :
        /\ Buffered(c)
        /\ calls[c].pc = "thrown"
        /\ Len(calls[c].histBefore) = 3
        /\ conversationHistory = calls[c].histBefore

\* C3: when the model stream of a processMessageStream call throws while it
\* is being consumed, the history after the failed call equals the history
\* before it (the user turn is removed).
C3_StreamFailureRollback ==
    \A c \in CallIds :
        (Streamed(c) /\ calls[c].pc = "failed") =>
            calls[c].histAfter = calls[c].histBefore

\* C4: a stream that is still being read, or that its consumer abandoned, has
\* put no assistant turn in the history; a drained stream has put exactly one,
\* holding the concatenation of all the chunks it yielded.
C4_CommitOnlyWhenDrained ==
    \A c \in CallIds :
        Streamed(c) =>
            LET pushed == Append(calls[c].histBefore, UserTurn(calls[c].userContent)) IN
            /\ calls[c].pc = "streaming" => conversationHistory = pushed
            /\ calls[c].pc = "abandoned" =>
                  /\ calls[c].histAfter = pushed
                  /\ conversationHistory \in {pushed, <<SystemTurn>>}
            /\ calls[c].pc = "drained" =>
                  calls[c].histAfter =
                      Append(pushed, AssistantTurn(Concat(calls[c].yielded)))

\* a stream abandoned after one of its chunks
C4_Witness ==
    \E c \in CallIds :
        /\ Streamed(c)
        /\ calls[c].pc = "abandoned"
        /\ calls[c].chunkCount = 1
        /\ Len(calls[c].histBefore) = 3

\* C5: once an abandoned processMessageStream call is over, the history does
\* not end with that call's user turn without an assistant turn.
C5_NoOrphanAfterAbandon ==
    \A c \in CallIds :
        (Streamed(c) /\ calls[c].pc = "abandoned") =>
            calls[c].histAfter #
                Append(calls[c].histBefore, UserTurn(calls[c].userContent))

\* the history holds exactly one system turn, and it is the first turn
OneLeadingSystemTurn(history) ==
    /\ Len(history) >= 1
    /\ history[1] = SystemTurn
    /\ RoleCount(history, "system") = 1

\* C6: in every state the history begins with the system turn and holds
\* exactly one system turn; a step that changes the history without any call
\* making progress (clearHistory) leaves exactly the system turn.
C6_SingleSystemTurn ==
    /\ OneLeadingSystemTurn(conversationHistory)
    /\ [][/\ OneLeadingSystemTurn(conversationHistory')
          /\ (calls' = calls /\ conversationHistory' # conversationHistory) =>
                conversationHistory' = <<SystemTurn>>]_vars

\* clearHistory after a successful call
C6_Witness ==
    \E c \in CallIds :
        /\ calls[c].pc = "returned"
        /\ Len(calls[c].histAfter) = 5
        /\ conversationHistory = <<SystemTurn>>

----------------------------------------------------------------------------
(* Properties of the tone directive *)

Tone == config.toneOfResponse

EnumeratedTones == {ConciseAndDirect, ProfessionalAndFriendly, DetailedAndConversational}

\* a processMessage(X) call: no additional context
PlainBuffered(c) == Buffered(c) /\ calls[c].additionalContext = None

\* the call recorded the user turn `content` and went on to the model call
Recorded(c, content) ==
    /\ calls[c].userContent = content
    /\ calls[c].histBefore # <<>>
    /\ calls[c].pc = "generateText" =>
          conversationHistory = Append(calls[c].histBefore, UserTurn(content))
    /\ calls[c].pc = "returned" =>
          calls[c].histAfter =
              calls[c].histBefore \o <<UserTurn(content), AssistantTurn(calls[c].text)>>

C8_StreamStoresSameUserTurn ==
    \A c \in CallIds :
        (Streamed(c) /\ calls[c].pc = "streaming") =>
            Last(conversationHistory) =
                UserTurn(BufferedUserContent(calls[c].message, calls[c].additionalContext))

\* the suffix documented for an enumerated value
SuffixOfEnumerated(tone) ==
    IF tone = ConciseAndDirect THEN ConciseSuffix
    ELSE IF tone = ProfessionalAndFriendly THEN ProfessionalSuffix
    ELSE DetailedSuffix

\* the configured value without its surrounding whitespace, in lower case
Normalized(tone) == ToLowerCase(Trim(tone))

----------------------------------------------------------------------------
(* Properties of the delegation tools *)

DelegationsOf(call) == {call.delegations[d] : d \in 1..Len(call.delegations)}

Delegations == UNION {DelegationsOf(calls[c]) : c \in CallIds}

RoundTripPaths ==
    {<<"REQUESTED">>,
     <<"REQUESTED", "CONNECTION_UNAVAILABLE">>,
     <<"REQUESTED", "CONNECTION_RESOLVED">>,
     <<"REQUESTED", "CONNECTION_RESOLVED", "EXECUTING">>,
     <<"REQUESTED", "CONNECTION_RESOLVED", "EXECUTING", "COMPLETED">>,
     <<"REQUESTED", "CONNECTION_RESOLVED", "EXECUTING", "FAILED">>}

\* the round trip is where the state machine allows, and what execute() has
\* handed back fits the state it ended in
RoundTripShape(del) ==
    /\ del.path \in RoundTripPaths
    /\ del.pc = "returned" <=>
          Last(del.path) \in {"CONNECTION_UNAVAILABLE", "COMPLETED", "FAILED"}
    /\ del.payload.kind \in {"none", "result", "error"}
    /\ del.payload.kind = "none" <=> del.pc # "returned"
    /\ del.payload.kind = "result" <=> Last(del.path) = "COMPLETED"
    /\ del.payload.kind = "error" <=>
          Last(del.path) \in {"CONNECTION_UNAVAILABLE", "FAILED"}

AllReturned == \A del \in Delegations : del.pc = "returned"

C10_ToolErrorDoesNotUnwind ==
    \A c \in CallIds :
        (Buffered(c) /\ HasToolError(calls[c])) =>
            LET pushed == Append(calls[c].histBefore, UserTurn(calls[c].userContent)) IN
            /\ calls[c].modelCall = "pending" => conversationHistory = pushed
            /\ calls[c].modelCall = "resolved" =>
                  /\ calls[c].pc = "returned"
                  /\ calls[c].histAfter = Append(pushed, AssistantTurn(calls[c].text))

\* a call that returned after its gmail delegation found no connection
C10_Witness ==
    \E c \in CallIds :
        /\ Buffered(c)
        /\ calls[c].pc = "returned"
        /\ conversationHistory = calls[c].histAfter
        /\ \E del \in DelegationsOf(calls[c]) :
              /\ del.tool = "delegate_to_gmail"
              /\ del.path = <<"REQUESTED", "CONNECTION_UNAVAILABLE">>

\* the store holds an active record for the connector
ActiveRecord(connector) ==
    /\ IsSome(integrations[connector])
    /\ Get(integrations[connector]).connectionStatus = "active"

FailedClosed(del) ==
    /\ del.path = <<"REQUESTED", "CONNECTION_UNAVAILABLE">>
    /\ del.pc = "returned"
    /\ del.toolkits = {}
    /\ del.payload = ErrorPayload(NotConnectedMessage(del.tool))

\* the step in which the getConnectionId call of delegation d of call c settles
LookupSettles(c, d) ==
    /\ calls[c].delegations[d].pc = "getConnectionId"
    /\ Len(calls') >= c
    /\ Len(calls'[c].delegations) >= d
    /\ calls'[c].delegations[d].pc # "getConnectionId"

\* C11 as stated: under every configuration, a delegation whose lookup
\* settles while the store holds no record, or a record that is not active,
\* for its capability fails closed: it never reaches EXECUTING and ends with
\* the "not connected" {error} payload.
C11_FailsClosedAsStated ==
    [][\A c \in CallIds : \A d \in DelegationIds(c) :
          (LookupSettles(c, d) /\ ~ActiveRecord(ConnectorOf(calls[c].delegations[d].tool)))
              => FailedClosed(calls'[c].delegations[d])]_vars

\* what one lookup decides, from the store as it is when the lookup settles
ResolvedAfresh(c, d) ==
    LET connector == ConnectorOf(calls[c].delegations[d].tool)
        fallback == ConfigConnectionId(connector)
        after == calls'[c].delegations[d] IN
    /\ (~ActiveRecord(connector) /\ ~TruthyId(fallback)) => FailedClosed(after)
    /\ (~ActiveRecord(connector) /\ TruthyId(fallback)) =>
          /\ after.path = <<"REQUESTED", "CONNECTION_RESOLVED">>
          /\ after.connectionId = fallback
    /\ ActiveRecord(connector) =>
          \/ /\ after.path = <<"REQUESTED", "CONNECTION_RESOLVED">>
             /\ after.connectionId = Some(Get(integrations[connector]).connectionId)
          \* the lookup itself failed
          \/ /\ TruthyId(fallback)
             /\ after.path = <<"REQUESTED", "CONNECTION_RESOLVED">>
             /\ after.connectionId = fallback
          \/ /\ ~TruthyId(fallback)
             /\ FailedClosed(after)

\* C11 as amended: a delegation whose lookup settles while the store holds no
\* active record for its capability fails closed when the configuration holds
\* no connectionIds entry for the capability, and goes on with the configured
\* id when it holds one; a delegation that has failed closed has created and
\* run no delegate; every delegation decides from the store as it is when its
\* own lookup settles.
C11_FailsClosed ==
    /\ [](\A del \in Delegations :
            (Len(del.path) >= 2 /\ del.path[2] = "CONNECTION_UNAVAILABLE") =>
                /\ FailedClosed(del)
                /\ ~TruthyId(ConfigConnectionId(ConnectorOf(del.tool))))
    /\ [][\A c \in CallIds : \A d \in DelegationIds(c) :
            LookupSettles(c, d) => ResolvedAfresh(c, d)]_vars

\* two gmail delegations of one call, no configured id: the first failed
\* closed, the second, after the user connected Gmail, ran with the record's id
C11_Witness ==
    \E c \in CallIds :
        /\ Len(calls[c].delegations) = 2
        /\ ~TruthyId(ConfigConnectionId("gmail"))
        /\ calls[c].delegations[1].tool = "delegate_to_gmail"
        /\ calls[c].delegations[2].tool = "delegate_to_gmail"
        /\ FailedClosed(calls[c].delegations[1])
        /\ calls[c].delegations[2].path =
              <<"REQUESTED", "CONNECTION_RESOLVED", "EXECUTING", "COMPLETED">>
        /\ calls[c].delegations[2].connectionId = Some("conn_store")

\* the toolset of the delegate's model call is the toolkit of its own capability
OwnToolkitOnly(del) ==
    /\ del.tool = "delegate_to_gmail" => del.toolkits \subseteq {"gmail"}
    /\ del.tool = "delegate_to_calendar" => del.toolkits \subseteq {"googlecalendar"}
    /\ del.pc = "executeTask" => del.toolkits # {}
    /\ del.toolkits # {} => del.path[Len(del.path)] \in {"EXECUTING", "COMPLETED", "FAILED"}

\* C12: the toolset handed to the Gmail delegate's model call holds the gmail
\* toolkit only and the one handed to the Calendar delegate's model call holds
\* the googlecalendar toolkit only, whatever delegations ran before or run at
\* the same time.
C12_DelegationIsolation ==
    \A del \in Delegations : OwnToolkitOnly(del)

\* a gmail delegate and a calendar delegate of one call, both in their model
\* call at the same time
C12_Witness ==
    \E c \in CallIds :
        /\ Len(calls[c].delegations) = 2
        /\ calls[c].delegations[1].tool = "delegate_to_gmail"
        /\ calls[c].delegations[2].tool = "delegate_to_calendar"
        /\ calls[c].delegations[1].pc = "executeTask"
        /\ calls[c].delegations[2].pc = "executeTask"
        /\ calls[c].delegations[1].toolkits = {"gmail"}
        /\ calls[c].delegations[2].toolkits = {"googlecalendar"}

----------------------------------------------------------------------------
(* Properties of the response stream *)

\* the kind of an event on the wire
FrameEvent(frame) == frame[2]

IsMessageFrame(frame) == FrameEvent(frame) = "message"

CountEvents(wire, events) ==
    Cardinality({i \in 1..Len(wire) : FrameEvent(wire[i]) \in events})

TerminalEvents == {"complete", "error"}

\* the chunks the orchestrator's text stream has yielded to the handler
Yielded == IF calls = <<>> THEN <<>> ELSE calls[1].yielded

\* C13 as stated: every response stream the handler has ended begins with
\* exactly one connection event and ends with exactly one terminal event.
C13_FramingAsStated ==
    response.ended =>
        /\ Len(response.wire) >= 2
        /\ FrameEvent(response.wire[1]) = "connection"
        /\ CountEvents(response.wire, {"connection"}) = 1
        /\ FrameEvent(Last(response.wire)) \in TerminalEvents
        /\ CountEvents(response.wire, TerminalEvents) = 1

\* what the handler has written fits where the handler is
Framed ==
    /\ ~response.ended => CountEvents(response.wire, TerminalEvents) = 0
    /\ response.ended =>
          /\ response.wire # <<>>
          /\ FrameEvent(Last(response.wire)) \in TerminalEvents
          /\ CountEvents(response.wire, TerminalEvents) = 1
    /\ response.failure = "handler" =>
          /\ Len(response.wire) = 1
          /\ FrameEvent(response.wire[1]) = "error"
          /\ response.metadata # Some(200)
    /\ (response.wire # <<>> /\ response.failure # "handler") =>
          /\ FrameEvent(response.wire[1]) = "connection"
          /\ CountEvents(response.wire, {"connection"}) = 1
          /\ response.metadata = Some(200)

\* C13 as amended: every response stream the handler writes ends with exactly
\* one terminal event, nothing is written after it and the stream is then
\* closed; the stream of a request that passed authentication, body
\* validation and secret retrieval begins with exactly one connection event,
\* and the stream of a request rejected before that is the error event alone.
C13_Framing ==
    /\ []Framed
    /\ [][response.ended => response' = response]_vars

\* a stream of a connection event, two message events and the complete event
C13_Witness ==
    /\ response.ended
    /\ Len(response.wire) = 4
    /\ FrameEvent(response.wire[1]) = "connection"
    /\ FrameEvent(response.wire[4]) = "complete"

\* C14: the message events on the wire are, in order, the chunks the
\* orchestrator's text stream yielded, one event per chunk, the i-th with id i.
C14_MessageOrder ==
    SelectSeq(response.wire, IsMessageFrame) =
        [i \in 1..Len(Yielded) |->
            formatSSE(SSEMessage("message", Some(<<ToString(i)>>), Yielded[i]))]

\* two different chunks on the wire, the second spanning two lines
C14_Witness ==
    /\ Len(Yielded) = 2
    /\ Yielded[1] = <<"b">>
    /\ Yielded[2] = <<"a", "\n", "b">>
    /\ Len(SelectSeq(response.wire, IsMessageFrame)) = 2
    /\ response.ended

\* the chunks the hook handed to onMessageChunk
Delivered == [i \in 1..Len(stream.onMessageChunk) |-> stream.onMessageChunk[i].chunk]

\* C15: when the hook has read a completed response to its end, the chunks it
\* decoded are the chunks the orchestrator emitted, in order, and the
\* accumulated message is their concatenation.
C15_RoundTrip ==
    (/\ stream.ending = "done"
     /\ FrameEvent(Last(response.wire)) = "complete") =>
        /\ Delivered = Yielded
        /\ stream.accumulatedMessage = Concat(Yielded)

\* C16: a read that holds exactly one message event whose payload has a
\* newline in it decodes to that payload.
C16_NewlinePayload ==
    \A ch \in StreamedChunks, id \in 1..Len(response.wire) :
        (/\ Len(stream.lastRead) = 1
         /\ IndexOfNewline(ch, 1) > 0
         /\ response.wire[stream.lastRead[1]] = formatSSE(MessageEvent(ch, id))) =>
            stream.lastParsed = Some([event |-> <<"message">>, data |-> ch])

\* C17: the completion callback has fired at most once; a stream read to its
\* end, with or without a terminal event, has fired it exactly once, with
\* the accumulated message, and has status 'completed'.
C17_CompletionOnce ==
    /\ Len(stream.onComplete) <= 1
    /\ stream.ending \in {"done", "closedEarly", "stopStream"} =>
          /\ stream.onComplete = <<stream.accumulatedMessage>>
          /\ stream.status = "completed"

\* a stream that was closed after a message event and before any terminal
\* event
C17_Witness ==
    /\ stream.ending = "closedEarly"
    /\ stream.read = 2
    /\ CountEvents(response.wire, TerminalEvents) = 0
    /\ stream.accumulatedMessage # <<>>
    /\ Len(stream.onComplete) = 1

\* the events the hook has read
ReadFrames == SubSeq(response.wire, 1, stream.read)

\* C18: once a stream is aborted (stopStream or unmount) after the hook read
\* k message events, and no error event, the completion callback has fired
\* exactly once, with the concatenation of the first k chunks, the error
\* callback has not fired and the status is not 'error'.
C18_AbortCompletesOnce ==
    (/\ stream.ending \in {"stopStream", "unmount"}
     /\ CountEvents(ReadFrames, {"error"}) = 0) =>
        LET k == CountEvents(ReadFrames, {"message"}) IN
        /\ stream.onComplete = <<Concat(SubSeq(Yielded, 1, k))>>
        /\ stream.onError = <<>>
        /\ stream.status # "error"

\* the payloads of the message events among `frames`, each event decoded on
\* its own
RECURSIVE DecodedOneByOne(_)
DecodedOneByOne(frames) ==
    IF frames = <<>> THEN <<>>
    ELSE LET parsed == parseSSEChunk(Head(frames)) IN
         IF IsSome(parsed) /\ Get(parsed).event = <<"message">>
         THEN <<Get(parsed).data>> \o DecodedOneByOne(Tail(frames))
         ELSE DecodedOneByOne(Tail(frames))

\* C25: what the hook has dispatched depends on the events it has read and
\* not on how they were grouped into reads: the message payloads handed to
\* onMessageChunk, the accumulated message and the number of connection
\* events are those of reading the same events one per read.
C25_SegmentationIndependent ==
    /\ Delivered = DecodedOneByOne(ReadFrames)
    /\ stream.accumulatedMessage = Concat(DecodedOneByOne(ReadFrames))
    /\ stream.onConnection = CountEvents(ReadFrames, {"connection"})

\* the hook handled a terminal error event of the server
ServerErrorHandled ==
    \E i \in 1..Len(stream.onError) : stream.onError[i].code = "SERVER_ERROR"

\* C29: once the hook has handled a terminal error event (onError fired),
\* the completion callback has not fired and does not fire for that stream,
\* and the status is not 'completed'.
C29_ErrorExcludesCompletion ==
    ServerErrorHandled =>
        /\ stream.onComplete = <<>>
        /\ stream.status # "completed"

\* the last event written is an error event that carries a message
EndsWithErrorMessage(wire) ==
    /\ wire # <<>>
    /\ Len(Last(wire)) = 9
    /\ Last(wire)[6] # ""
    /\ Last(wire) = formatSSE(SSEMessage("error", None, ErrorJson(Last(wire)[6])))

\* C19: a failure of the handler or of its generator (orchestrator
\* construction, model invocation, the text stream) has put an error event
\* with a message last on the wire and ended the response stream, and every
\* invocation of the handler ends its response stream.
C19_FatalErrorSurfaced ==
    /\ [](response.failure # "none" =>
            /\ response.ended
            /\ EndsWithErrorMessage(response.wire))
    /\ (response.pc # "idle") ~> response.ended

\* the text stream failed after one chunk was written
C19_Witness ==
    /\ response.failure = "generator"
    /\ response.ended
    /\ Len(response.wire) = 3
    /\ FrameEvent(response.wire[2]) = "message"
    /\ FrameEvent(response.wire[3]) = "error"

----------------------------------------------------------------------------
(* Properties of getHistory *)

\* the arrays the caller already held are what they were
HeldUnchanged == \A h \in 1..Len(held) : Len(held') >= h /\ held'[h] = held[h]

\* C20: the array getHistory returns holds the turns of the history and is
\* not the orchestrator's own array: a step that adds, removes or replaces a
\* turn in an array the caller holds leaves the history unchanged, and a step
\* that changes the history leaves the arrays the caller holds unchanged.
C20_GetHistoryCopies ==
    [][/\ Len(held') > Len(held) =>
            /\ Last(held').turns = conversationHistory
            /\ HeldUnchanged
       /\ conversationHistory' # conversationHistory => HeldUnchanged
       /\ ~HeldUnchanged => conversationHistory' = conversationHistory]_vars

\* the caller replaced the system turn of an array it got before a call and
\* pushed a turn of its own; the call completed on the orchestrator's history
C20_Witness ==
    /\ Len(held) >= 1
    /\ held[1].turns = <<InjectedTurn, InjectedTurn>>
    /\ Len(conversationHistory) = 3
    /\ conversationHistory[1] = SystemTurn

----------------------------------------------------------------------------
(* Properties of the model invocation *)

\* the step issues a processMessage or processMessageStream call
Issues == issued' = issued + 1

\* the call ended with its response handed to the caller in full
Succeeded(call) == call.pc \in {"returned", "drained"}

\* C22: the messages given to the model on every invocation are the full
\* history at that moment, that is the history as the earlier calls left it
\* (their committed turns in order) followed by the call's own user turn as
\* the last element; the assistant turn is appended only when the call
\* succeeds, right after those messages.
C22_ModelSeesFullHistory ==
    /\ [][Issues =>
            LET call == Last(calls') IN
                call.messages = Append(conversationHistory, UserTurn(call.userContent))]_vars
    /\ [](\A c \in 1..Len(calls) :
            /\ calls[c].messages = Append(calls[c].histBefore, UserTurn(calls[c].userContent))
            /\ Succeeded(calls[c]) =>
                    calls[c].histAfter =
                        Append(calls[c].messages,
                               AssistantTurn(IF Buffered(c) THEN calls[c].text
                                             ELSE calls[c].fullText))
            /\ ~Succeeded(calls[c]) /\ ~InFlight(c) =>
                    RoleCount(calls[c].histAfter, "assistant")
                        = RoleCount(calls[c].histBefore, "assistant")
            /\ InFlight(c) => conversationHistory = calls[c].messages)

\* the second call of a conversation: the model is given the system turn, the
\* first call's user and assistant turns and the new user turn
C22_Witness ==
    \E c \in 1..Len(calls) :
        /\ issued = 2
        /\ Len(calls[c].messages) = 4
        /\ calls[c].messages[2].role = "user"
        /\ calls[c].messages[3].role = "assistant"
        /\ calls[c].messages[4] = UserTurn(calls[c].userContent)
        /\ Succeeded(calls[c])

----------------------------------------------------------------------------
(* Properties of the instruction built from a chat request *)

HasUserEntry(messages) == \E i \in 1..Len(messages) : messages[i].role = "user"

\* the contents of the user entries in list order, a blank line between two
\* that follow each other
RECURSIVE UserInstruction(_)
UserInstruction(messages) ==
    IF messages = <<>> THEN <<>>
    ELSE IF Head(messages).role # "user" THEN UserInstruction(Tail(messages))
    ELSE IF HasUserEntry(Tail(messages))
    THEN Head(messages).content \o <<"\n\n">> \o UserInstruction(Tail(messages))
    ELSE Head(messages).content

\* the text has a piece that is not whitespace
HasVisiblePiece(text) == \E i \in 1..Len(text) : text[i] \notin {" ", "\n\n"}

\* C23: only the user entries of the request's message list are used; their
\* contents, in list order and joined by a blank line, are the instruction
\* passed to the orchestrator, once per request at most and exactly once when
\* the handler reads the text stream; when the instruction is blank the
\* orchestrator is never called and the stream ends with an error event.
C23_UserInstruction ==
    response.pc # "idle" =>
        LET instruction == UserInstruction(response.request.messages) IN
            /\ issued <= 1
            /\ issued = Len(calls)
            /\ \A c \in 1..Len(calls) :
                    /\ calls[c].method = "processMessageStream"
                    /\ calls[c].message = instruction
                    /\ calls[c].additionalContext = None
            /\ response.pc = "streaming" => issued = 1
            /\ ~HasVisiblePiece(instruction) =>
                    /\ issued = 0
                    /\ response.pc # "streaming"
                    /\ response.ended => FrameEvent(Last(response.wire)) = "error"

\* a request whose list holds two user entries around an assistant entry was
\* streamed to its end
C23_Witness ==
    /\ response.pc = "ended"
    /\ Len(response.request.messages) = 3
    /\ response.request.messages[2].role = "assistant"
    /\ calls # <<>>
    /\ calls[1].message = <<"X", "\n\n", " ">>
    /\ FrameEvent(Last(response.wire)) = "complete"

----------------------------------------------------------------------------
(* Properties of calls that overlap *)

\* the step is the rollback of processMessage call c
RollsBack(c) ==
    /\ calls[c].pc = "generateText"
    /\ Len(calls') = Len(calls)
    /\ calls'[c].pc = "thrown"

\* C26: the rollback of a failing processMessage call removes the user turn
\* this call appended and nothing else, whatever happened to the history
\* while the call was in flight: the turn it removes is the call's own user
\* turn, never another call's turn or the system turn.
C26_RollbackRemovesOwnTurn ==
    [][\A c \in 1..Len(calls) :
          RollsBack(c) =>
              /\ conversationHistory # <<>>
              /\ Last(conversationHistory) = UserTurn(calls[c].userContent)
              /\ conversationHistory' = Front(conversationHistory)]_vars

----------------------------------------------------------------------------
(* Properties of the startStream calls of one hook *)

ActiveRuns == {r \in 1..Len(hook.runs) : IsActive(hook.runs[r])}

\* C27: at most one stream of a hook has an open connection at any time: a
\* startStream call issued while another is in progress opens none.
C27_OneActiveStream == Cardinality(ActiveRuns) <= 1

\* C28: from the start of a stream's fetch until that stream ends, the ref
\* holds that stream's own controller, so that stopStream aborts it.
C28_RefDesignatesActiveStream ==
    \A r \in ActiveRuns : hook.abortControllerRef = hook.runs[r].controller

----------------------------------------------------------------------------
(* Properties of setHistory *)

StartsWithSystemTurn(turns) == turns # <<>> /\ turns[1].role = "system"

\* the step is a setHistory call that installed held[h]
Installed(h) == ~held[h].live /\ held'[h].live

\* C21: setHistory(turns) replaces the history wholesale with turns, and
\* only a sequence that starts with a system turn is ever installed: a
\* sequence that does not is rejected and the history is left as it was.
C21_SetHistoryValidates ==
    [][\A h \in 1..Len(held) :
          Installed(h) =>
              /\ conversationHistory' = held[h].turns
              /\ StartsWithSystemTurn(held[h].turns)]_vars

\* C30: after setHistory(turns) the history is the orchestrator's alone: a
\* step in which the caller appends to, removes from or replaces in a
\* sequence it holds leaves the history unchanged, and a step in which the
\* orchestrator changes its history leaves the caller's sequences unchanged.
C30_ExclusiveOwnership ==
    [][\/ conversationHistory' = conversationHistory
       \/ \A h \in 1..Len(held) : held'[h].turns = held[h].turns]_vars

====
